---- MODULE Spec2Model ----
(***************************************************************************)
(* Model of twonms.config.Config (python_twonms_config): the layered       *)
(* configuration builder.  Config.create() builds four layers (required    *)
(* defaults, environment variables, YAML file, CLI arguments) through the  *)
(* property getters of the Config object and deep-merges them with         *)
(* OmegaConf.merge.                                                        *)
(*                                                                         *)
(* The world the program runs in is part of the state: the process         *)
(* environment (os.environ), the local .env file, the directories and      *)
(* files on disk, and sys.argv.  One call of create() is a run of the      *)
(* getters in the order __create calls them; each getter is one action.    *)
(***************************************************************************)
EXTENDS Naturals, Sequences, FiniteSets, TLC

(***************************************************************************)
(* Bounds of the model.                                                    *)
(***************************************************************************)
\* longest .env file, in entries
MaxDotenvLen == 2
\* most command-line tokens in sys.argv[1:]
MaxArgv == 2

(***************************************************************************)
(* Values.  An optional argument is Some(x) or None.  A configuration is a *)
(* function from keys to nodes; a node is a scalar or a nested mapping.    *)
(***************************************************************************)
None == [some |-> FALSE, v |-> ""]
\* None where a list is expected
NoneList == [some |-> FALSE, v |-> <<>>]
Some(x) == [some |-> TRUE, v |-> x]

EmptyConf == <<>>
Scalar(s) == [isMap |-> FALSE, val |-> s, kids |-> EmptyConf]
Mapping(m) == [isMap |-> TRUE, val |-> "", kids |-> m]
\* YAML null / Python None as a value of a key
NullNode == Scalar("~null~")

(***************************************************************************)
(* OmegaConf.merge on two DictConfigs (BaseContainer._map_merge): keys of  *)
(* the source are written over the destination; where both hold a nested   *)
(* mapping the two are merged recursively, otherwise the source's node     *)
(* replaces the destination's.                                             *)
(***************************************************************************)
RECURSIVE MapMerge(_, _)
\* a merge that replaces a nested mapping wholesale
MapMergeShallow(dest, src) ==
    [k \in (DOMAIN dest) \cup (DOMAIN src) |->
        IF k \in DOMAIN src THEN src[k] ELSE dest[k]]

MapMerge(dest, src) ==
    [k \in (DOMAIN dest) \cup (DOMAIN src) |->
        IF k \notin DOMAIN src THEN dest[k]
        ELSE IF k \notin DOMAIN dest THEN src[k]
        ELSE IF dest[k].isMap /\ src[k].isMap
             THEN Mapping(MapMerge(dest[k].kids, src[k].kids))
             ELSE src[k]]

\* the merge with the file layer and the CLI layer exchanged
MergeFileOverCli(r, e, f, c) == MapMerge(MapMerge(MapMerge(r, e), c), f)

\* the merge with the required layer left out
MergeNoRequired(r, e, f, c) == MapMerge(MapMerge(e, f), c)

\* OmegaConf.merge(required, env, file, cli): the first is copied and the
\* others are merged into it from left to right
OmegaConfMerge(r, e, f, c) == MapMerge(MapMerge(MapMerge(r, e), f), c)

(***************************************************************************)
(* Class constants.                                                        *)
(***************************************************************************)
DEV == <<"D", "E", "V">>
PROD == <<"P", "R", "O", "D">>
DEBUG == <<"D", "E", "B", "U", "G">>
TEST == <<"T", "E", "S", "T">>

\* ENVIRONMENT_MAPPING.keys()
ENVIRONMENT_MAPPING_KEYS == {DEV, PROD, DEBUG, TEST}

\* ENVIRONMENT_MAPPING[k]
ENVIRONMENT_MAPPING(k) ==
    CASE k = DEV -> "development.yaml"
      [] k = PROD -> "production.yaml"
      [] k = DEBUG -> "debug.yaml"
      [] k = TEST -> "test.yaml"

DEFAULT_ALLOWED_ENVVARS == <<"environment", "debug">>

(***************************************************************************)
(* str.upper(), on a string given as the sequence of its characters.       *)
(***************************************************************************)
LowerLetters ==
    <<"a", "b", "c", "d", "e", "f", "g", "h", "i", "j", "k", "l", "m",
      "n", "o", "p", "q", "r", "s", "t", "u", "v", "w", "x", "y", "z">>

UpperLetters ==
    <<"A", "B", "C", "D", "E", "F", "G", "H", "I", "J", "K", "L", "M",
      "N", "O", "P", "Q", "R", "S", "T", "U", "V", "W", "X", "Y", "Z">>

\* upper() of one character: a lower-case letter becomes its capital, any
\* other character stays
UpperChar(c) ==
    IF \E i \in DOMAIN LowerLetters : LowerLetters[i] = c
    THEN UpperLetters[CHOOSE i \in DOMAIN LowerLetters : LowerLetters[i] = c]
    ELSE c

Upper(s) == [i \in DOMAIN s |-> UpperChar(s[i])]

(***************************************************************************)
(* The Config object: the fields __init__ stores.  path is a directory     *)
(* name, conf an optional file name, env a string (its characters),        *)
(* required_config the caller's object, allowed_envvars an optional list.  *)
(***************************************************************************)
\* self.allowed_envvars = allowed_envvars or []
AllowedOf(a) == IF a.some THEN a.v ELSE <<>>

\* the result of __init__
ConfigInit(path, conf, env, required, allowed) ==
    [path |-> path, conf |-> conf, env |-> env,
     required |-> required, allowed_envvars |-> AllowedOf(allowed)]

\* Config.create() with no arguments
DefaultSelf ==
    ConfigInit("./conf", None, PROD,
               [kind |-> "dict", conf |-> EmptyConf],
               Some(DEFAULT_ALLOWED_ENVVARS))

(***************************************************************************)
(* Property getters that read only the object and the disk.                *)
(***************************************************************************)
\* Config.env without the call of upper()
EnvNoUpper(self) ==
    IF self.env \in ENVIRONMENT_MAPPING_KEYS THEN self.env ELSE <<>>

\* Config.env: the upper-cased tag when it is a key of the table, else None
\* (None is the empty sequence here)
EnvOf(self) ==
    LET env == Upper(self.env)
    IN  IF env \in ENVIRONMENT_MAPPING_KEYS THEN env ELSE <<>>

\* Config.conf: the explicit file name when it is truthy, else the name the
\* table gives for the environment, else None
ConfOf(self) ==
    IF self.conf.some /\ self.conf.v # ""
    THEN Some(self.conf.v)
    ELSE LET env == EnvOf(self)
         IN  IF env # <<>> /\ env \in ENVIRONMENT_MAPPING_KEYS
             THEN Some(ENVIRONMENT_MAPPING(env))
             ELSE None

\* Config.path: the directory when os.path.isdir says it exists, else None
PathOf(self, dirs) ==
    IF self.path \in dirs THEN Some(self.path) ELSE None

(***************************************************************************)
(* required_config.  The caller's object is a Python dict, a YAML string   *)
(* or anything else.  OmegaConf.create gives a DictConfig for a dict and   *)
(* for a YAML string that parses to a mapping, an empty DictConfig for a   *)
(* string that parses to nothing, the DictConfig {text: None} for a string *)
(* that parses to a plain scalar text, a ListConfig for a list and for a   *)
(* string that parses to a list, and raises for a string YAML cannot parse *)
(* and for an object of any other type.                                    *)
(*   kind         the caller's object                                      *)
(*   "dict"       a dict, conf its contents                                *)
(*   "yaml_map"   a YAML string of a mapping, conf what it parses to       *)
(*   "yaml_empty" the empty string                                         *)
(*   "yaml_text"  a string such as "hello", key the text                   *)
(*   "yaml_list"  a YAML string of a sequence                              *)
(*   "list"       a Python list                                            *)
(*   "yaml_bad"   a string with a YAML syntax error                        *)
(*   "int"        an object OmegaConf.create does not support              *)
(***************************************************************************)
RequiredKinds ==
    {"dict", "yaml_map", "yaml_empty", "yaml_text", "yaml_list", "list",
     "yaml_bad", "int"}

\* the kinds that are a mapping or a YAML mapping string
WellFormedKinds == {"dict", "yaml_map", "yaml_empty"}

DictConfig(c) == [raised |-> FALSE, isList |-> FALSE, conf |-> c]
ListConfig == [raised |-> FALSE, isList |-> TRUE, conf |-> EmptyConf]
Raises == [raised |-> TRUE, isList |-> FALSE, conf |-> EmptyConf]

\* OmegaConf.create(obj)
OmegaConfCreate(obj) ==
    CASE obj.kind \in {"dict", "yaml_map"} -> DictConfig(obj.conf)
      [] obj.kind = "yaml_empty" -> DictConfig(EmptyConf)
      [] obj.kind = "yaml_text" -> DictConfig("hello" :> NullNode)
      [] obj.kind \in {"yaml_list", "list"} -> ListConfig
      [] OTHER -> Raises

\* Config.required_config: OmegaConf.create(self._required_config), and an
\* empty DictConfig when that raises
RequiredConfigOf(self) ==
    LET obj == OmegaConfCreate(self.required)
    IN  IF obj.raised THEN DictConfig(EmptyConf) ELSE obj

(***************************************************************************)
(* The environment layer.  load_dotenv() (python-dotenv, default           *)
(* arguments: override=False, interpolate=True) reads the .env file, a     *)
(* sequence of entries key=value where a value is a literal text or a      *)
(* reference ${name}; a reference resolves to the process environment's    *)
(* value of name, else to the value an earlier entry of the file gave      *)
(* name, else to the empty string.  Every key of the file that the process *)
(* environment does not hold yet is then set in the process environment.   *)
(* The process environment is a function from the names that are set to    *)
(* their values.                                                           *)
(***************************************************************************)
Lit(k, text) == [key |-> k, isRef |-> FALSE, text |-> text]
Ref(k, name) == [key |-> k, isRef |-> TRUE, text |-> name]

\* the values of the .env file's entries, resolved in file order
RECURSIVE DotenvValues(_, _)
DotenvValues(entries, environ) ==
    IF entries = <<>> THEN EmptyConf
    ELSE LET n == Len(entries)
             e == entries[n]
             before == DotenvValues(SubSeq(entries, 1, n - 1), environ)
             value ==
                IF ~e.isRef THEN e.text
                ELSE IF e.text \in DOMAIN environ THEN environ[e.text]
                ELSE IF e.text \in DOMAIN before THEN before[e.text]
                ELSE ""
         IN  [k \in (DOMAIN before) \cup {e.key} |->
                IF k = e.key THEN value ELSE before[k]]

\* load_dotenv(override=True): the file's values replace the environment's
LoadDotenvOverride(entries, environ) ==
    LET values == DotenvValues(entries, environ)
    IN  [k \in (DOMAIN environ) \cup (DOMAIN values) |->
            IF k \in DOMAIN values THEN values[k] ELSE environ[k]]

\* load_dotenv(): os.environ afterwards
LoadDotenv(entries, environ) ==
    LET values == DotenvValues(entries, environ)
    IN  [k \in (DOMAIN environ) \cup (DOMAIN values) |->
            IF k \in DOMAIN environ THEN environ[k] ELSE values[k]]

\* the elements of a list
Elems(list) == {list[i] : i \in DOMAIN list}

\* the dict comprehension without its condition's test for an empty value
EnvironmentDictEmpties(allowed, environ) ==
    [x \in {y \in Elems(allowed) : y \in DOMAIN environ} |->
        Scalar(environ[x])]

\* {x: os.environ.get(x) for x in allowed_envvars if os.environ.get(x)}
EnvironmentDict(allowed, environ) ==
    [x \in {y \in Elems(allowed) : y \in DOMAIN environ /\ environ[y] # ""} |->
        Scalar(environ[x])]

(***************************************************************************)
(* The CLI layer.  OmegaConf.from_cli() reads sys.argv[1:], a sequence of  *)
(* tokens key=value (key a dotted path of one or two names here, value a   *)
(* YAML scalar); a token whose value YAML cannot parse raises.  The tokens *)
(* are applied in order: a one-name path sets the key, a two-name path     *)
(* sets the sub-key inside the key's mapping (made empty first when the    *)
(* key is absent or holds a scalar).                                       *)
(***************************************************************************)
Tok(path, text) == [path |-> path, text |-> text, bad |-> FALSE]
BadTok(path) == [path |-> path, text |-> "[1", bad |-> TRUE]

\* OmegaConf.update(conf, key, value) for one token
DotlistUpdate(conf, tok) ==
    LET k == tok.path[1]
        node ==
            IF Len(tok.path) = 1 THEN Scalar(tok.text)
            ELSE LET inner == IF k \in DOMAIN conf /\ conf[k].isMap
                              THEN conf[k].kids ELSE EmptyConf
                 IN  Mapping([s \in (DOMAIN inner) \cup {tok.path[2]} |->
                        IF s = tok.path[2] THEN Scalar(tok.text) ELSE inner[s]])
    IN  [x \in (DOMAIN conf) \cup {k} |-> IF x = k THEN node ELSE conf[x]]

RECURSIVE FromDotlist(_)
FromDotlist(toks) ==
    IF toks = <<>> THEN EmptyConf
    ELSE DotlistUpdate(FromDotlist(SubSeq(toks, 1, Len(toks) - 1)),
                       toks[Len(toks)])

\* OmegaConf.from_cli(), copied into a new DictConfig
CliConfigOf(argv) ==
    IF \E i \in DOMAIN argv : argv[i].bad
    THEN Raises
    ELSE DictConfig(FromDotlist(argv))

(***************************************************************************)
(* The file layer.  The disk holds directories (dirs) and files (files,    *)
(* pairs <<directory, name>>); what a file holds depends on its name.      *)
(* OmegaConf.load raises for a file YAML cannot parse.                     *)
(***************************************************************************)
FileNames ==
    {"development.yaml", "production.yaml", "debug.yaml", "test.yaml",
     "custom.yaml"}

\* OmegaConf.load(config_file)
OmegaConfLoad(name) ==
    CASE name = "development.yaml" ->
            DictConfig("debug" :> Scalar("f") @@
                       "a" :> Mapping("b" :> Scalar("3")))
      [] name = "production.yaml" ->
            DictConfig("a" :> Mapping("b" :> Scalar("5") @@ "d" :> Scalar("6")))
      [] name = "debug.yaml" -> DictConfig("debug" :> Scalar("g"))
      [] name = "custom.yaml" -> DictConfig("a" :> Scalar("u"))
      [] name = "test.yaml" -> Raises
      [] OTHER -> DictConfig(EmptyConf)

\* os.path.join(self.path, self.conf) when both are set, else None
ConfigFileOf(self, dirs) ==
    LET path == PathOf(self, dirs)
        conf == ConfOf(self)
    IN  IF path.some /\ conf.some THEN Some(<<path.v, conf.v>>) ELSE NoneList

\* Config.file_config without the test of os.path.isfile: loading a file
\* that does not exist raises
FileConfigNoIsfile(self, dirs, files) ==
    LET f == ConfigFileOf(self, dirs)
    IN  IF ~f.some THEN DictConfig(EmptyConf)
        ELSE IF f.v \in files THEN OmegaConfLoad(f.v[2]) ELSE Raises

\* Config.file_config
FileConfigOf(self, dirs, files) ==
    LET f == ConfigFileOf(self, dirs)
    IN  IF f.some /\ f.v \in files
        THEN OmegaConfLoad(f.v[2])
        ELSE DictConfig(EmptyConf)

(***************************************************************************)
(* State.                                                                  *)
(***************************************************************************)
VARIABLES
    environ,          \* os.environ: the variables set -> their values
    dotenv,           \* the .env file: a sequence of entries
    dirs,             \* the directories on disk
    files,            \* the files on disk, <<directory, name>>
    argv,             \* sys.argv[1:]: a sequence of tokens
    self,             \* the Config object of the current call
    pc,               \* where the current call of create() is
    required_config,  \* __create's local: the required layer
    env_config,       \* __create's local: the environment layer
    cli_config,       \* __create's local: the CLI layer
    file_config,      \* __create's local: the file layer
    merged_config,    \* what create() returned, once pc = "done"
    raisedBy,         \* the step whose exception left create(), once "raised"
    built,            \* history: the layers built so far, in order
    environAtCall,    \* history: os.environ when the current call began
    prev              \* history: the outcome of the call before this one,
                      \* when it had the same arguments

world == <<dotenv, dirs, files, argv>>
locals == <<required_config, env_config, cli_config, file_config>>
vars == <<environ, dotenv, dirs, files, argv, self, pc, required_config,
          env_config, cli_config, file_config, merged_config, raisedBy,
          built, environAtCall, prev>>

NoPrev == [valid |-> FALSE, pc |-> "idle", merged |-> EmptyConf, raisedBy |-> ""]

\* the statements of __create, in the order it runs them
CreateOrder == <<"required", "environment", "cli", "file", "merge">>

\* the statement after step, "done" after the last
After(step) ==
    LET i == CHOOSE j \in DOMAIN CreateOrder : CreateOrder[j] = step
    IN  IF i < Len(CreateOrder) THEN CreateOrder[i + 1] ELSE "done"

\* the state before any call of create()
InitProgram ==
    /\ self = DefaultSelf
    /\ pc = "idle"
    /\ required_config = DictConfig(EmptyConf)
    /\ env_config = EmptyConf
    /\ cli_config = EmptyConf
    /\ file_config = EmptyConf
    /\ merged_config = EmptyConf
    /\ raisedBy = ""
    /\ built = <<>>
    /\ environAtCall = environ
    /\ prev = NoPrev

(***************************************************************************)
(* Config.create(path, conf, env, required_config, allowed_envvars): the   *)
(* constructor; __create then runs the steps below.                        *)
(***************************************************************************)
Create(path, conf, env, required, allowed) ==
    /\ pc \in {"idle", "done", "raised"}
    /\ self' = ConfigInit(path, conf, env, required, allowed)
    /\ prev' = IF pc # "idle" /\ self' = self
               THEN [valid |-> TRUE, pc |-> pc, merged |-> merged_config,
                     raisedBy |-> raisedBy]
               ELSE NoPrev
    /\ pc' = CreateOrder[1]
    /\ required_config' = DictConfig(EmptyConf)
    /\ env_config' = EmptyConf
    /\ cli_config' = EmptyConf
    /\ file_config' = EmptyConf
    /\ merged_config' = EmptyConf
    /\ raisedBy' = ""
    /\ built' = <<>>
    /\ environAtCall' = environ
    /\ UNCHANGED <<environ, world>>

\* required_config = self.required_config
GetRequiredConfig ==
    /\ pc = "required"
    /\ required_config' = RequiredConfigOf(self)
    /\ built' = Append(built, "required")
    /\ pc' = After("required")
    /\ UNCHANGED <<environ, world, self, env_config, cli_config, file_config,
                   merged_config, raisedBy, environAtCall, prev>>

\* env_config = self.environment_config
GetEnvironmentConfig ==
    /\ pc = "environment"
    /\ environ' = LoadDotenv(dotenv, environ)
    /\ env_config' = EnvironmentDict(self.allowed_envvars, environ')
    /\ built' = Append(built, "environment")
    /\ pc' = After("environment")
    /\ UNCHANGED <<world, self, required_config, cli_config, file_config,
                   merged_config, raisedBy, environAtCall, prev>>

\* cli_config = self.cli_config
GetCliConfig ==
    /\ pc = "cli"
    /\ LET c == CliConfigOf(argv)
       IN  IF c.raised
           THEN /\ pc' = "raised"
                /\ raisedBy' = "cli"
                /\ UNCHANGED <<cli_config, built>>
           ELSE /\ cli_config' = c.conf
                /\ built' = Append(built, "cli")
                /\ pc' = After("cli")
                /\ UNCHANGED raisedBy
    /\ UNCHANGED <<environ, world, self, required_config, env_config,
                   file_config, merged_config, environAtCall, prev>>

\* file_config = self.file_config
GetFileConfig ==
    /\ pc = "file"
    /\ LET f == FileConfigOf(self, dirs, files)
       IN  IF f.raised
           THEN /\ pc' = "raised"
                /\ raisedBy' = "file"
                /\ UNCHANGED <<file_config, built>>
           ELSE /\ file_config' = f.conf
                /\ built' = Append(built, "file")
                /\ pc' = After("file")
                /\ UNCHANGED raisedBy
    /\ UNCHANGED <<environ, world, self, required_config, env_config,
                   cli_config, merged_config, environAtCall, prev>>

\* merged_config = OmegaConf.merge(required_config, env_config, file_config,
\* cli_config); return merged_config.  Merging DictConfigs into a
\* ListConfig raises TypeError.
Merge ==
    /\ pc = "merge"
    /\ IF required_config.isList
       THEN /\ pc' = "raised"
            /\ raisedBy' = "merge"
            /\ UNCHANGED merged_config
       ELSE /\ merged_config' = OmegaConfMerge(required_config.conf, env_config,
                                               file_config, cli_config)
            /\ pc' = After("merge")
            /\ UNCHANGED raisedBy
    /\ UNCHANGED <<environ, world, self, locals, built, environAtCall, prev>>

\* the steps of __create
Step ==
    \/ GetRequiredConfig
    \/ GetEnvironmentConfig
    \/ GetCliConfig
    \/ GetFileConfig
    \/ Merge

(***************************************************************************)
(* Inputs.                                                                 *)
(***************************************************************************)
\* the sequences over S of length at most n
SeqsUpTo(S, n) == UNION {[1..m -> S] : m \in 0..n}

\* the process environments over the names N with values in V
Environs(N, V) == UNION {[D -> V] : D \in SUBSET N}

EnvNames == {"environment", "debug", "secret"}
EnvValues == {"", "e"}

RequiredFull ==
    "debug" :> Scalar("r") @@
    "a" :> Mapping("b" :> Scalar("1") @@ "c" :> Scalar("2"))

RequiredInputs ==
    {[kind |-> "dict", conf |-> EmptyConf],
     [kind |-> "dict", conf |-> RequiredFull],
     [kind |-> "yaml_map", conf |-> ("a" :> Scalar("r"))]}
    \cup {[kind |-> k, conf |-> EmptyConf] :
            k \in RequiredKinds \ {"dict", "yaml_map"}}

(***************************************************************************)
(* Spec: the merge.  Every required_config, the CLI tokens and the choice  *)
(* of the file vary; the directory holds every file.                       *)
(***************************************************************************)
MergeTokens ==
    {Tok(<<"debug">>, "c"), Tok(<<"a">>, "c"), Tok(<<"a", "c">>, "4"),
     BadTok(<<"a">>)}

Init ==
    /\ environ \in Environs({"debug"}, EnvValues)
    /\ dotenv = <<>>
    /\ dirs = {"./conf"}
    /\ files = {"./conf"} \X FileNames
    /\ argv \in SeqsUpTo(MergeTokens, MaxArgv)
    /\ InitProgram

CreateMerge ==
    \E conf \in {None, Some("custom.yaml"), Some("test.yaml")},
       env \in {<<"d", "e", "v">>, PROD},
       required \in RequiredInputs,
       allowed \in {Some(DEFAULT_ALLOWED_ENVVARS), NoneList} :
        Create("./conf", conf, env, required, allowed)

Next == CreateMerge \/ Step

Spec == Init /\ [][Next]_vars

(***************************************************************************)
(* SpecFile: the choice of the file.  The directory may be missing and may *)
(* hold any set of files; path, conf and env vary.                         *)
(***************************************************************************)
InitFile ==
    /\ environ = ("debug" :> "e")
    /\ dotenv = <<>>
    /\ dirs \in SUBSET {"./conf"}
    /\ files \in {dirs \X F : F \in SUBSET FileNames}
    /\ argv \in {<<Tok(<<"debug">>, "c")>>, <<BadTok(<<"a">>)>>}
    /\ InitProgram

EnvTags ==
    {PROD, <<"d", "e", "v">>, <<"D", "e", "v">>, DEV, <<"t", "e", "s", "t">>,
     <<"u", "n", "k", "n", "o", "w", "n">>, <<>>}

CreateFile ==
    \E path \in {"./conf", "/does/not/exist"},
       conf \in {None, Some(""), Some("custom.yaml"), Some("absent.yaml")},
       env \in EnvTags,
       required \in {[kind |-> "dict", conf |-> EmptyConf],
                     [kind |-> "dict", conf |-> RequiredFull],
                     [kind |-> "list", conf |-> EmptyConf]} :
        Create(path, conf, env, required, Some(DEFAULT_ALLOWED_ENVVARS))

NextFile == CreateFile \/ Step

SpecFile == InitFile /\ [][NextFile]_vars

(***************************************************************************)
(* SpecEnv: the environment.  The process environment, the .env file and   *)
(* allowed_envvars vary.                                                   *)
(***************************************************************************)
DotenvEntries ==
    {Lit("debug", "d"), Ref("debug", "secret"), Lit("secret", "s"),
     Lit("environment", "")}

InitEnv ==
    /\ environ \in Environs(EnvNames, EnvValues)
    /\ dotenv \in SeqsUpTo(DotenvEntries, MaxDotenvLen)
    /\ dirs = {"./conf"}
    /\ files = {}
    /\ argv \in {<<>>, <<Tok(<<"a">>, "c")>>}
    /\ InitProgram

CreateEnv ==
    \E required \in {[kind |-> "dict", conf |-> EmptyConf],
                     [kind |-> "dict", conf |-> RequiredFull]},
       allowed \in {Some(DEFAULT_ALLOWED_ENVVARS), NoneList, Some(<<"secret">>),
                    Some(<<"debug", "secret", "debug">>)} :
        Create("./conf", None, PROD, required, allowed)

NextEnv == CreateEnv \/ Step

SpecEnv == InitEnv /\ [][NextEnv]_vars

(***************************************************************************)
(* Properties of the merge.                                                *)
(***************************************************************************)
\* the four layers of the current call, lowest precedence first
Layers == <<required_config.conf, env_config, file_config, cli_config>>

\* the keys any layer defines
LayerKeys == UNION {DOMAIN Layers[i] : i \in 1..4}

\* the layers that define key k
Defining(k) == {i \in 1..4 : k \in DOMAIN Layers[i]}

\* the highest-precedence layer that defines k
Highest(k) == CHOOSE i \in Defining(k) : \A j \in Defining(k) : j <= i

\* the layers that give k a nested mapping
MappingIn(k) == {i \in Defining(k) : Layers[i][k].isMap}

\* C1 as stated: whenever some layer gives k a scalar, the result's k is the
\* value of the highest-precedence layer that defines k.
C1_AsStated ==
    pc = "done" =>
        \A k \in LayerKeys :
            (\E i \in Defining(k) : ~Layers[i][k].isMap)
                => /\ k \in DOMAIN merged_config
                   /\ merged_config[k] = Layers[Highest(k)][k]

\* C1 (amended): precedence law.  For every key k whose highest-precedence
\* defining layer (required < environment < file < CLI) gives it a scalar,
\* the result's k is that scalar.
C1_Precedence ==
    pc = "done" =>
        \A k \in LayerKeys :
            ~Layers[Highest(k)][k].isMap
                => /\ k \in DOMAIN merged_config
                   /\ merged_config[k] = Layers[Highest(k)][k]

\* a key set in all four layers with four different values took the CLI's
C1_Witness ==
    /\ pc = "done"
    /\ Defining("debug") = 1..4
    /\ Cardinality({Layers[i]["debug"] : i \in 1..4}) = 4
    /\ merged_config["debug"] = cli_config["debug"]
    /\ ~cli_config["debug"].isMap

\* C2 as stated: whenever a lower and a higher layer both give k a nested
\* mapping, the result's k is the recursive merge of the two.
C2_AsStated ==
    pc = "done" =>
        \A k \in LayerKeys : \A i, j \in MappingIn(k) :
            i < j => merged_config[k]
                        = Mapping(MapMerge(Layers[i][k].kids, Layers[j][k].kids))

\* C2 (amended): deep-merge law.  When a lower and a higher layer both give
\* k a nested mapping and no layer above the lower one gives k a scalar, the
\* result's k is a mapping in which a sub-key of the lower layer that no
\* higher layer defines keeps the lower layer's value and a sub-key that
\* higher layers define has the value of the highest of them; when no other
\* layer defines k, the result's k is the recursive merge of the two.
C2_DeepMerge ==
    pc = "done" =>
        \A k \in LayerKeys : \A i, j \in MappingIn(k) :
            (i < j /\ \A h \in Defining(k) : h > i => h \in MappingIn(k)) =>
                LET above(s) == {h \in Defining(k) :
                                    h > i /\ s \in DOMAIN Layers[h][k].kids}
                    top(s) == CHOOSE h \in above(s) : \A g \in above(s) : g <= h
                IN  /\ k \in DOMAIN merged_config
                    /\ merged_config[k].isMap
                    /\ \A s \in DOMAIN Layers[i][k].kids :
                        /\ s \in DOMAIN merged_config[k].kids
                        /\ merged_config[k].kids[s] =
                              IF above(s) = {} THEN Layers[i][k].kids[s]
                              ELSE Layers[top(s)][k].kids[s]
                    /\ Defining(k) = {i, j} =>
                          merged_config[k] =
                              Mapping(MapMerge(Layers[i][k].kids,
                                               Layers[j][k].kids))

\* required a.b=1, a.c=2 with file a.b=3 and no other layer defining a
\* gave a.b=3, a.c=2
C2_Witness ==
    /\ pc = "done"
    /\ Defining("a") = {1, 3}
    /\ required_config.conf["a"] = Mapping("b" :> Scalar("1") @@ "c" :> Scalar("2"))
    /\ file_config["a"] = Mapping("b" :> Scalar("3"))
    /\ merged_config["a"] = Mapping("b" :> Scalar("3") @@ "c" :> Scalar("2"))

\* C3: required parameters are always present.  Every top-level key of a
\* required_config mapping (a dict or a YAML mapping string) is a key of the
\* mapping create() returns.
C3_RequiredPresent ==
    (pc = "done" /\ self.required.kind \in {"dict", "yaml_map"}) =>
        DOMAIN self.required.conf \subseteq DOMAIN merged_config

\* a required key whose value a higher layer changed is still there
C3_Witness ==
    /\ pc = "done"
    /\ self.required.kind = "dict"
    /\ "debug" \in DOMAIN self.required.conf
    /\ "debug" \in DOMAIN merged_config
    /\ merged_config["debug"] # self.required.conf["debug"]

\* C7 as stated: a required_config that is not a mapping or a YAML mapping
\* string never makes create() raise, and the result is the merge of the
\* environment, file and CLI layers alone.
C7_MalformedRequiredDegrades ==
    self.required.kind \notin WellFormedKinds =>
        /\ ~(pc = "raised" /\ raisedBy = "merge")
        /\ pc = "done" =>
              merged_config =
                  OmegaConfMerge(EmptyConf, env_config, file_config, cli_config)

\* C10 as stated: the layers are built in the order required, environment,
\* file, CLI, each once, the merge runs after all four, and when both the
\* file and the CLI arguments are malformed the file's error propagates.
C10_BuildOrder ==
    /\ \E n \in 0..4 :
          built = SubSeq(<<"required", "environment", "file", "cli">>, 1, n)
    /\ pc \in {"merge", "done"} => Len(built) = 4
    /\ (pc = "raised" /\ FileConfigOf(self, dirs, files).raised
            /\ CliConfigOf(argv).raised) => raisedBy = "file"

(***************************************************************************)
(* Properties of the file layer.                                           *)
(***************************************************************************)
\* the file layer has been built, or its build raised, in the current call
FileStepDone ==
    \/ \E i \in DOMAIN built : built[i] = "file"
    \/ pc = "raised" /\ raisedBy = "file"

\* what the file layer must be when the file to read is path/name: the
\* file's contents when it exists, the propagated error when YAML cannot
\* parse it, nothing when the directory or the file is missing
FileLayerIs(name) ==
    IF self.path \in dirs /\ <<self.path, name>> \in files
    THEN IF OmegaConfLoad(name).raised
         THEN pc = "raised" /\ raisedBy = "file"
         ELSE raisedBy # "file" /\ file_config = OmegaConfLoad(name).conf
    ELSE raisedBy # "file" /\ file_config = EmptyConf

\* nothing is read
FileLayerEmpty == raisedBy # "file" /\ file_config = EmptyConf

\* the file the environment tag selects, matched without regard to case
FileLayerByEnv ==
    IF Upper(self.env) \in {DEV, PROD, DEBUG, TEST}
    THEN FileLayerIs(ENVIRONMENT_MAPPING(Upper(self.env)))
    ELSE FileLayerEmpty

\* C5 as stated: the file read is path/conf whenever conf is given, whatever
\* conf is; else the file of the upper-cased env; else none.
C5_AsStated ==
    FileStepDone =>
        IF self.conf.some THEN FileLayerIs(self.conf.v) ELSE FileLayerByEnv

\* C5 (amended): config-file name resolution.  The file read is path/conf
\* when conf is given and is not the empty string; otherwise (conf unset or
\* empty) it is path/ENVIRONMENT_MAPPING[upper(env)] when upper(env) is one
\* of DEV, PROD, DEBUG, TEST; otherwise no file is read.  With env "dev" in
\* any case, conf unset and development.yaml present, the file layer is
\* that file's contents.
C5_FileResolution ==
    FileStepDone =>
        /\ IF self.conf.some /\ self.conf.v # ""
           THEN FileLayerIs(self.conf.v)
           ELSE FileLayerByEnv
        /\ (/\ self.env \in {<<"d", "e", "v">>, <<"D", "e", "v">>, DEV}
            /\ ~self.conf.some
            /\ <<self.path, "development.yaml">> \in files)
              => file_config = OmegaConfLoad("development.yaml").conf
        /\ (/\ Upper(self.env) \notin {DEV, PROD, DEBUG, TEST}
            /\ ~self.conf.some)
              => file_config = EmptyConf

\* env "Dev" with conf unset read development.yaml from a directory that
\* also holds other files
C5_Witness ==
    /\ pc = "done"
    /\ self.env = <<"D", "e", "v">>
    /\ ~self.conf.some
    /\ {<<"./conf", "development.yaml">>, <<"./conf", "custom.yaml">>}
          \subseteq files
    /\ file_config = OmegaConfLoad("development.yaml").conf
    /\ "a" \in DOMAIN merged_config
    /\ merged_config["a"] = Mapping("b" :> Scalar("3") @@ "c" :> Scalar("2"))

\* the name of the file the call resolves to, if any
ResolvedName ==
    IF self.conf.some /\ self.conf.v # "" THEN Some(self.conf.v)
    ELSE IF Upper(self.env) \in {DEV, PROD, DEBUG, TEST}
         THEN Some(ENVIRONMENT_MAPPING(Upper(self.env)))
         ELSE None

\* the directory is missing, or it exists and the resolved file does not
FileMissing ==
    \/ self.path \notin dirs
    \/ ResolvedName.some /\ <<self.path, ResolvedName.v>> \notin files

Setenv(e, k, v) ==
    [x \in (DOMAIN e) \cup {k} |-> IF x = k THEN v ELSE e[x]]

\* the process environment e with variable k unset
Unsetenv(e, k) == [x \in (DOMAIN e) \ {k} |-> e[x]]

\* the process environments that differ from e at most in variable k
VariantsAt(e, k) == {Unsetenv(e, k)} \cup {Setenv(e, k, v) : v \in EnvValues}

\* what the current call returns when it starts from process environment e,
\* everything else as it is
ReturnedFrom(e) ==
    OmegaConfMerge(RequiredConfigOf(self).conf,
                   EnvironmentDict(self.allowed_envvars, LoadDotenv(dotenv, e)),
                   FileConfigOf(self, dirs, files).conf,
                   CliConfigOf(argv).conf)

\* C4 as stated: for a variable k outside allowed_envvars, a call that
\* starts from a process environment differing only in k returns an equal
\* result, and k set in the process environment does not make k a key of
\* the result.
C4_AllowListNonInterference ==
    pc = "done" =>
        \A k \in EnvNames \ Elems(self.allowed_envvars) :
            \A e \in VariantsAt(environAtCall, k) :
                /\ ReturnedFrom(e) = merged_config
                /\ k \in DOMAIN ReturnedFrom(e)
                      => k \in DOMAIN ReturnedFrom(Unsetenv(environAtCall, k))

\* C8: idempotence.  A call of create() that follows a call with the same
\* arguments, nothing but create() itself having changed the process
\* environment, the disk or the command line in between, ends as that call
\* ended: it returns an equal mapping, or raises at the same step.
C8_Idempotent ==
    (prev.valid /\ pc \in {"done", "raised"}) =>
        /\ pc = prev.pc
        /\ merged_config = prev.merged
        /\ raisedBy = prev.raisedBy

\* the second of two equal calls returned a value that the first call had
\* loaded from the .env file into the process environment
C8_Witness ==
    /\ prev.valid
    /\ pc = "done"
    /\ prev.pc = "done"
    /\ "debug" \in DOMAIN environAtCall
    /\ environAtCall["debug"] = "d"
    /\ "debug" \in DOMAIN merged_config
    /\ merged_config["debug"] = Scalar("d")

\* the environment layer has been built in the current call
EnvStepDone == \E i \in DOMAIN built : built[i] = "environment"

\* C9: environment layer contents.  Once the .env file is loaded, the
\* environment layer has key k exactly when k is in allowed_envvars and the
\* process environment holds a non-empty value for k, and maps k to that
\* value; an allowed variable set to the empty string is left out and does
\* not override the required default of k.
C9_EnvironmentLayer ==
    /\ EnvStepDone =>
          /\ \A k \in EnvNames \cup Elems(self.allowed_envvars) :
                k \in DOMAIN env_config <=>
                    /\ \E i \in DOMAIN self.allowed_envvars :
                          self.allowed_envvars[i] = k
                    /\ k \in DOMAIN environ
                    /\ environ[k] # ""
          /\ DOMAIN env_config \subseteq EnvNames \cup Elems(self.allowed_envvars)
          /\ \A k \in DOMAIN env_config : env_config[k] = Scalar(environ[k])
    /\ pc = "done" =>
          \A k \in Elems(self.allowed_envvars) :
              (/\ k \in DOMAIN environ
               /\ environ[k] = ""
               /\ k \in DOMAIN required_config.conf
               /\ k \notin (DOMAIN file_config) \cup (DOMAIN cli_config))
                  => merged_config[k] = required_config.conf[k]

\* an allowed variable set to the empty string left the required default
\* in the result, beside an allowed variable that is in the layer
C9_Witness ==
    /\ pc = "done"
    /\ self.allowed_envvars = <<"debug", "secret", "debug">>
    /\ "debug" \in DOMAIN environ
    /\ environ["debug"] = ""
    /\ "debug" \notin DOMAIN env_config
    /\ "debug" \in DOMAIN merged_config
    /\ merged_config["debug"] = Scalar("r")
    /\ "secret" \in DOMAIN env_config
    /\ merged_config["secret"] = Scalar("s")

====
